---- MODULE Spec2Model ----
(***************************************************************************)
(* Model of build-icons.py: the icon generator of the Anava camera         *)
(* extension.  One run is the linear script: make the output directory,    *)
(* check the source favicon, fetch it with curl when it is absent, call    *)
(* create_icon_from_favicon for 16, 48 and 128, and report.  The file      *)
(* system, the outcome of curl and the outcome of each write are the       *)
(* environment; standard output is taken to be writable.                   *)
(***************************************************************************)
EXTENDS Integers, Sequences, FiniteSets, TLC

\* Bounds of the model.
MaxRuns == 2
MaxImages == 2

\* ---------------------------------------------------------------- files
FAVICON_SOURCE == "anava-favicon-source.png"

\* The three calls of lines 45-47: (size, filename), in program order.
Sizes == <<16, 48, 128>>
Filenames == <<"dist/icon16.png", "dist/icon48.png", "dist/icon128.png">>

IconPaths == {Filenames[i] : i \in DOMAIN Filenames}
Paths == {FAVICON_SOURCE} \cup IconPaths

\* The content of a path: no file, bytes that do not decode, or an image.
Absent == [kind |-> "absent", id |-> 0, w |-> 0, h |-> 0]
Corrupt == [kind |-> "corrupt", id |-> 0, w |-> 0, h |-> 0]
Picture(id, w, h) == [kind |-> "image", id |-> id, w |-> w, h |-> h]

\* Source artwork the environment can supply: image 1 is square, the others
\* are wider than high.
SourceImages == {Picture(i, 32 * i, 32) : i \in 1..MaxImages}
SourceContents == SourceImages \cup {Corrupt}

\* An icon left in dist/ by an earlier build.
Stale == Picture(0, 16, 16)

\* os.path.exists(path)
exists(f, path) == f[path].kind # "absent"

\* Image.open(FAVICON_SOURCE) followed by the decode that resize forces:
\* raises unless the file holds an image.
Readable(file) == file.kind = "image"

ResizeKeepAspect(img, size) == Picture(img.id, size, (size * img.h) \div img.w)

\* img.resize((size, size), LANCZOS): the same artwork, exactly size x size.
Resize(img, size) == Picture(img.id, size, size)

SaveOverSource(f, filename, data) == [f EXCEPT ![FAVICON_SOURCE] = data]

\* img_resized.save(filename, 'PNG'): the file at filename is replaced.
Save(f, filename, data) == [f EXCEPT ![filename] = data]

\* curl -s <url> -o FAVICON_SOURCE: the bytes curl wrote are the source file.
Download(f, bytes) == [f EXCEPT ![FAVICON_SOURCE] = bytes]

\* What a failed save leaves at filename: the file as it was, or a
\* truncated one.
WriteOutcomes == {"ok", "untouched", "truncated"}

\* create_icon_from_favicon(size, filename) on file system f, where wr is
\* what the environment lets the save do.  Every exception of the body is
\* caught and turned into the return value False.
create_icon_from_favicon(f, dir, size, filename, wr) ==
    IF ~Readable(f[FAVICON_SOURCE])
    THEN [fs |-> f, ret |-> FALSE, cause |-> "read"]
    ELSE IF wr = "ok" /\ dir
         THEN [fs |-> Save(f, filename, Resize(f[FAVICON_SOURCE], size)),
               ret |-> TRUE, cause |-> "ok"]
         ELSE [fs |-> IF wr = "truncated" /\ dir
                      THEN Save(f, filename, Corrupt) ELSE f,
               ret |-> FALSE, cause |-> "write"]

NeedFetchAlways(f) == TRUE

NeedFetchNever(f) == FALSE

\* `if not os.path.exists(FAVICON_SOURCE)` of line 34.
NeedFetch(f) == ~exists(f, FAVICON_SOURCE)

AfterFetchNoExit(rc) == "icon1"

AfterFetchRetry(rc) == IF rc # 0 THEN "fetch" ELSE "icon1"

\* Lines 38-41: a non-zero return code of curl exits the process.
AfterFetch(rc) == IF rc # 0 THEN "done" ELSE "icon1"

CombineLastWins(ret, succ) == ret

\* Lines 45-47: `create_icon_from_favicon(..) and success`; the call is the
\* left operand, so it is evaluated whatever success holds.
Combine(ret, succ) == ret /\ succ

AfterIconAbort(i, ret) ==
    IF ~ret THEN "done" ELSE IF i = 1 THEN "icon2" ELSE IF i = 2 THEN "icon3" ELSE "report"

\* The statement that follows the i-th call, whatever it returned: no
\* exception leaves create_icon_from_favicon, so control always falls through.
AfterIcon(i, ret) == IF i = 1 THEN "icon2" ELSE IF i = 2 THEN "icon3" ELSE "report"

ExitStatusZero(succ) == 0

\* Lines 49-53: the exit status of a run that reached the report.
ExitStatus(succ) == IF succ THEN 0 ELSE 1

\* ---------------------------------------------------------------- state
VARIABLES
    pc,          \* position of the script
    run,         \* number of the current run
    fs,          \* content of every path
    distDir,     \* the directory dist exists
    success,     \* the variable success of lines 44-49
    exitCode,    \* exit status of the run, -1 while it runs
    fetches,     \* curl invocations of this run
    fetchResult, \* "none", "ok" or "fail"
    attempts,    \* sizes passed to create_icon_from_favicon in this run
    returned,    \* the values those calls returned
    causes,      \* "ok", "read" or "write" for each call
    written,     \* icon paths whose content this run replaced
    fsAtStart,   \* fs when this run started
    prevFs,      \* fs when the previous run exited
    prevExit,    \* exit status of the previous run
    prevCauses   \* causes of the previous run

vars == <<pc, run, fs, distDir, success, exitCode, fetches, fetchResult,
          attempts, returned, causes, written, fsAtStart, prevFs, prevExit,
          prevCauses>>

prevVars == <<prevFs, prevExit, prevCauses>>

Init ==
    /\ pc = "makedirs"
    /\ run = 1
    /\ fs \in {f \in [Paths -> SourceContents \cup {Absent, Stale}] :
                 /\ f[FAVICON_SOURCE] \in SourceContents \cup {Absent}
                 /\ \A p \in IconPaths : f[p] \in {Absent, Stale}}
    /\ distDir \in BOOLEAN
    /\ (~distDir => \A p \in IconPaths : fs[p] = Absent)
    /\ success = TRUE
    /\ exitCode = -1
    /\ fetches = 0
    /\ fetchResult = "none"
    /\ attempts = <<>>
    /\ returned = <<>>
    /\ causes = <<>>
    /\ written = {}
    /\ fsAtStart = fs
    /\ prevFs = fs
    /\ prevExit = -1
    /\ prevCauses = <<>>

\* Line 11: os.makedirs('dist', exist_ok=True)
MakeDirs ==
    /\ pc = "makedirs"
    /\ distDir' = TRUE
    /\ pc' = "check"
    /\ UNCHANGED <<run, fs, success, exitCode, fetches, fetchResult, attempts,
                   returned, causes, written, fsAtStart, prevVars>>

\* Line 34 (and line 44 when the source is there).
CheckSource ==
    /\ pc = "check"
    /\ pc' = IF NeedFetch(fs) THEN "fetch" ELSE "icon1"
    /\ UNCHANGED <<run, fs, distDir, success, exitCode, fetches, fetchResult,
                   attempts, returned, causes, written, fsAtStart, prevVars>>

\* Lines 37-41, curl returned 0: the response bytes are now the source file.
FetchOk ==
    /\ pc = "fetch"
    /\ \E body \in SourceContents : fs' = Download(fs, body)
    /\ fetches' = fetches + 1
    /\ fetchResult' = "ok"
    /\ pc' = AfterFetch(0)
    /\ exitCode' = IF AfterFetch(0) = "done" THEN 1 ELSE exitCode
    /\ UNCHANGED <<run, distDir, success, attempts, returned, causes, written,
                   fsAtStart, prevVars>>

\* Lines 37-40, curl failed (or could not be started): exit(1).  A transfer
\* that broke off leaves the path as it was or a partial file behind.
FetchFail ==
    /\ pc = "fetch"
    /\ \E left \in {fs[FAVICON_SOURCE], Corrupt} :
           fs' = Download(fs, left)
    /\ fetches' = fetches + 1
    /\ fetchResult' = "fail"
    /\ pc' = AfterFetch(1)
    /\ exitCode' = IF AfterFetch(1) = "done" THEN 1 ELSE exitCode
    /\ UNCHANGED <<run, distDir, success, attempts, returned, causes, written,
                   fsAtStart, prevVars>>

\* The i-th statement of lines 45-47.  A run that ends anywhere but at the
\* report ends by exit(1) or an uncaught exception: status 1.
CreateIcon(i) ==
    \E wr \in WriteOutcomes :
        LET r == create_icon_from_favicon(fs, distDir, Sizes[i], Filenames[i], wr) IN
        /\ fs' = r.fs
        /\ success' = Combine(r.ret, success)
        /\ attempts' = Append(attempts, Sizes[i])
        /\ returned' = Append(returned, r.ret)
        /\ causes' = Append(causes, r.cause)
        /\ written' = written \cup {p \in Paths : r.fs[p] # fs[p]}
                              \cup (IF r.ret THEN {Filenames[i]} ELSE {})
        /\ pc' = AfterIcon(i, r.ret)
        /\ exitCode' = IF AfterIcon(i, r.ret) = "done" THEN 1 ELSE exitCode
        /\ UNCHANGED <<run, distDir, fetches, fetchResult, fsAtStart, prevVars>>

CreateIcon16 == pc = "icon1" /\ CreateIcon(1)
CreateIcon48 == pc = "icon2" /\ CreateIcon(2)
CreateIcon128 == pc = "icon3" /\ CreateIcon(3)

\* Lines 49-53.
Report ==
    /\ pc = "report"
    /\ exitCode' = ExitStatus(success)
    /\ pc' = "done"
    /\ UNCHANGED <<run, fs, distDir, success, fetches, fetchResult, attempts,
                   returned, causes, written, fsAtStart, prevVars>>

\* The tool is run again on the files the last run left.
Rerun ==
    /\ pc = "done"
    /\ run < MaxRuns
    /\ run' = run + 1
    /\ pc' = "makedirs"
    /\ success' = TRUE
    /\ exitCode' = -1
    /\ fetches' = 0
    /\ fetchResult' = "none"
    /\ attempts' = <<>>
    /\ returned' = <<>>
    /\ causes' = <<>>
    /\ written' = {}
    /\ fsAtStart' = fs
    /\ prevFs' = fs
    /\ prevExit' = exitCode
    /\ prevCauses' = causes
    /\ UNCHANGED <<fs, distDir>>

Next ==
    \/ MakeDirs
    \/ CheckSource
    \/ FetchOk
    \/ FetchFail
    \/ CreateIcon16
    \/ CreateIcon48
    \/ CreateIcon128
    \/ Report
    \/ Rerun

Spec == Init /\ [][Next]_vars

\* ---------------------------------------------------------------- claims
SourceAtStart == exists(fsAtStart, FAVICON_SOURCE)

\* The run got to line 44: the source was there, or curl returned 0.
ReachedResize == SourceAtStart \/ fetchResult = "ok"

Exited == pc = "done"

IconPcs == {"icon1", "icon2", "icon3"}

NoWriteFault(cs) == \A i \in DOMAIN cs : cs[i] # "write"

DistOf(f) == [p \in IconPaths |-> f[p]]

\* C1: a run that reached the resize phase exits 0 exactly when all three
\* calls returned True, exits 1 otherwise, and exits only after three calls.
C1_ExitIsConjunction ==
    (Exited /\ ReachedResize) =>
        /\ Len(attempts) = 3
        /\ Len(returned) = 3
        /\ exitCode \in {0, 1}
        /\ (exitCode = 0 <=> \A i \in DOMAIN returned : returned[i])

C1_Witness ==
    Exited /\ returned = <<TRUE, FALSE, TRUE>> /\ exitCode = 1

\* C2: a failure inside create_icon_from_favicon comes back as False and
\* the sizes 16, 48, 128 are each attempted once, in that order, whatever
\* the earlier calls returned.
C2_FaultIsolated ==
    /\ Len(attempts) <= Len(Sizes)
    /\ attempts = SubSeq(Sizes, 1, Len(attempts))
    /\ Len(returned) = Len(attempts)
    /\ Len(causes) = Len(attempts)
    /\ \A i \in DOMAIN returned : returned[i] = (causes[i] = "ok")
    /\ (Exited /\ ReachedResize => attempts = Sizes)

C2_Witness ==
    Exited /\ attempts = Sizes /\ returned = <<FALSE, TRUE, TRUE>>

\* C3: source absent at start and fetch failed: the run has exited non-zero
\* with no call of create_icon_from_favicon and every icon file as it was.
C3_FetchFailureIsFatal ==
    (~SourceAtStart /\ fetchResult = "fail") =>
        /\ Exited
        /\ exitCode = 1
        /\ attempts = <<>>
        /\ written = {}
        /\ DistOf(fs) = DistOf(fsAtStart)

C3_Witness ==
    ~SourceAtStart /\ fetchResult = "fail" /\ Exited
    /\ fs[FAVICON_SOURCE] = Corrupt

\* C4: a run that found the source file at start never runs curl.
C4_NoFetchWhenSourcePresent ==
    SourceAtStart => (fetches = 0 /\ fetchResult = "none" /\ pc # "fetch")

C4_Witness ==
    SourceAtStart /\ Exited /\ returned = <<FALSE, FALSE, FALSE>>

\* C5: after a successful fetch the source file exists, and no call of
\* create_icon_from_favicon starts while the source file is absent.
C5_SourceBeforeResize ==
    /\ (fetchResult = "ok" => exists(fs, FAVICON_SOURCE))
    /\ (pc \in IconPcs \/ attempts # <<>>) => exists(fs, FAVICON_SOURCE)

C5_Witness ==
    ~SourceAtStart /\ fetchResult = "ok" /\ Len(attempts) = 1
    /\ exists(fs, FAVICON_SOURCE)

\* C6: with a readable source and no write failure the run replaces exactly
\* the three icon files, each the source artwork at exactly size x size for
\* the size of its path, and exits 0.
C6_ThreeSquareIcons ==
    (Exited /\ ReachedResize /\ Readable(fs[FAVICON_SOURCE])
       /\ NoWriteFault(causes)) =>
        /\ written = IconPaths
        /\ Cardinality(written) = 3
        /\ \A i \in DOMAIN Filenames :
              /\ fs[Filenames[i]].kind = "image"
              /\ fs[Filenames[i]].id = fs[FAVICON_SOURCE].id
              /\ fs[Filenames[i]].w = Sizes[i]
              /\ fs[Filenames[i]].h = Sizes[i]
        /\ exitCode = 0

C6_Witness ==
    /\ Exited /\ exitCode = 0
    /\ fs[FAVICON_SOURCE].kind = "image"
    /\ fs[FAVICON_SOURCE].w # fs[FAVICON_SOURCE].h
    /\ fs["dist/icon128.png"] = Picture(fs[FAVICON_SOURCE].id, 128, 128)

\* C7: with a source file that exists but does not decode, all three calls
\* are made, each returns False for a read failure, and the run exits 1.
C7_CorruptSource ==
    (Exited /\ ReachedResize /\ fs[FAVICON_SOURCE] = Corrupt) =>
        /\ attempts = Sizes
        /\ returned = <<FALSE, FALSE, FALSE>>
        /\ causes = <<"read", "read", "read">>
        /\ exitCode = 1

C7_Witness ==
    /\ Exited /\ ReachedResize /\ fs[FAVICON_SOURCE] = Corrupt
    /\ Len(attempts) = 3 /\ exitCode = 1

C9_OneFetchThreeWrites ==
    [][ /\ (fetches' > fetches =>
               fetches = 0 /\ attempts = <<>> /\ attempts' = <<>>)
        /\ (Len(attempts') > Len(attempts) => fetches' = fetches)
        /\ fetches' <= 1
        /\ written' \subseteq IconPaths
        /\ Cardinality(written') <= 3
        /\ \A i \in DOMAIN Filenames :
              fs'[Filenames[i]] # fs[Filenames[i]] =>
                  (Len(attempts) = i - 1 /\ Len(attempts') = i)
      ]_vars

C9_Witness ==
    Exited /\ fetches = 1 /\ Len(attempts) = 3 /\ Cardinality(written) = 3

\* C10: the source file changes only in the fetch step of a run that found
\* it absent; a run that found it keeps it as it was.
C10_SourceReadOnly ==
    [][ /\ (fs'[FAVICON_SOURCE] # fs[FAVICON_SOURCE] =>
               pc = "fetch" /\ ~SourceAtStart)
        /\ (SourceAtStart /\ run' = run =>
               fs'[FAVICON_SOURCE] = fsAtStart[FAVICON_SOURCE])
      ]_vars

C10_Witness ==
    /\ SourceAtStart /\ Exited /\ fs[FAVICON_SOURCE] = fsAtStart[FAVICON_SOURCE]
    /\ returned = <<TRUE, FALSE, TRUE>>

====
